---- MODULE Spec2Model ----
(***************************************************************************)
(* Model of verdictd's Rats-TLS binding, src/src/rats_tls/mod.rs:          *)
(* the RatsTls session handle (new, clone, drop, into_ptr, from_ptr,       *)
(* negotiate, receive, transmit) and the evidence verification callback    *)
(* (callback, sgx_callback, csv_callback).                                 *)
(*                                                                         *)
(* The native library (rats_tls_init, rats_tls_set_verification_callback,  *)
(* rats_tls_negotiate, rats_tls_receive, rats_tls_transmit,                *)
(* rats_tls_cleanup) and the bindings in ffi.rs are not part of the        *)
(* sources; what the model says about them is taken from the               *)
(* specification's interface sections and is marked "native" below.        *)
(***************************************************************************)
EXTENDS Integers, Sequences, FiniteSets, TLC

\* ------------------------------------------------------------------ bounds
MaxHandles == 2      \* RatsTls values (Rust objects) ever created
MaxCtx == 1          \* native contexts rats_tls_init ever allocates
MaxStrLen == 3       \* longest configuration string tried
MaxEvidence == 2     \* evidence records the peer presents in one handshake
MaxBuf == 1          \* longest caller buffer handed to receive/transmit
MaxErr == 2          \* native error codes are 1..MaxErr
MaxThreads == 2      \* threads on which the transport runs the callback

\* --------------------------------------------------------- native interface
\* rats_tls_err_t: "no error" and the other codes (ffi.rs).
RATS_TLS_ERR_NONE == 0
ErrCodes == 1..MaxErr
Codes == {RATS_TLS_ERR_NONE} \cup ErrCodes

\* Capacity of each fixed-size name buffer of rats_tls_conf_t, scaled down
\* (the native header gives every *_TYPE_NAME_SIZE the same value).
TYPE_NAME_SIZE == 2

RATS_TLS_CONF_FLAGS_MUTUAL == 1
RATS_TLS_CONF_FLAGS_SERVER == 2
RATS_TLS_API_VERSION_DEFAULT == 1
RATS_TLS_LOG_LEVEL_DEBUG == 0
RATS_TLS_CERT_ALGO_DEFAULT == 1

\* enclave_evidence_type_t tags; OTHER_TAG stands for every other tag value.
enclave_evidence_type_t_SGX_ECDSA == 1
enclave_evidence_type_t_CSV == 4
OTHER_TAG == 9

\* Option<T>: None is the empty sequence, Some(x) the one-element sequence.
None == <<>>
Some(x) == <<x>>
IsSome(o) == o # None
Unwrap(o) == o[1]

Handles == 1..MaxHandles
Ctxs == 1..MaxCtx
Threads == 1..MaxThreads

\* --------------------------------------------------------------- the state
VARIABLES
    handles,   \* handles[h]: the RatsTls value h, [st, ptr]; st is "unused"
               \* (not created yet), "live", "dropped" (Drop has run) or
               \* "forgotten" (into_ptr); ptr is the NonNull it wraps
    ctxs,      \* ctxs[c]: the native context c, [st, cleanups, cb, hs]; st is
               \* "unalloc", "live" or "released"; cleanups counts the
               \* rats_tls_cleanup calls on it; cb: the callback is
               \* registered; hs: "none", "ok" or "failed", the handshake
    raw,       \* the raw pointers into_ptr handed out and nobody wrapped yet
    last,      \* the last call made and what it returned
    threads    \* threads[t]: where thread t stands in `callback`, [pc, ev];
               \* pc is "idle" or "entered", ev the evidence it was given

vars == <<handles, ctxs, raw, last, threads>>

\* ------------------------------------------------------------ configuration
\* A Rust String of the configuration: only its bytes matter, and every
\* byte is the same letter, so a string is its length.
Str(n) == [i \in 1..n |-> 1]
StrArgs == {None} \cup {Some(Str(n)) : n \in 0..MaxStrLen}

\* rats_tls_conf_t after Default::default(): zeroed buffers, zero flags.
ConfDefault ==
    [api_version |-> 0, log_level |-> 0, cert_algo |-> 0, enclave_id |-> 0,
     flags |-> 0,
     tls_type |-> [i \in 1..TYPE_NAME_SIZE |-> 0],
     crypto_type |-> [i \in 1..TYPE_NAME_SIZE |-> 0],
     attester_type |-> [i \in 1..TYPE_NAME_SIZE |-> 0],
     verifier_type |-> [i \in 1..TYPE_NAME_SIZE |-> 0]]

\* buf[..s.len()]: the range check of the slice index panics when the
\* string is longer than the buffer.
SliceInRange(buf, s) == Len(s) <= Len(buf)

\* buf[..s.len()].copy_from_slice(s.as_bytes()), for a string that fits.
CopyFromSlice(buf, s) ==
    [i \in 1..Len(buf) |-> IF i <= Len(s) THEN s[i] ELSE buf[i]]

\* One `if let Some(x) = x { conf.f[..x.len()].copy_from_slice(..) }`.
SetName(buf, o) == IF IsSome(o) THEN CopyFromSlice(buf, Unwrap(o)) ELSE buf

\* Faulty variant of FlagOr: the flag is assigned, not or-ed in.
FlagOr_Assign(flags, f) == f

\* conf.flags |= F, flags being a bit set of the two known flags.
FlagOr(flags, f) == IF (flags \div f) % 2 = 1 THEN flags ELSE flags + f

\* The configuration `new` builds (lines 81-103), given that no copy panics.
BuildConf(cfg) ==
    LET c1 == [ConfDefault EXCEPT
                  !.api_version = RATS_TLS_API_VERSION_DEFAULT,
                  !.log_level = RATS_TLS_LOG_LEVEL_DEBUG,
                  !.tls_type = SetName(@, cfg.tls_type),
                  !.crypto_type = SetName(@, cfg.crypto),
                  !.attester_type = SetName(@, cfg.attester),
                  !.verifier_type = SetName(@, cfg.verifier),
                  !.cert_algo = RATS_TLS_CERT_ALGO_DEFAULT,
                  !.enclave_id = cfg.enclave_id]
        c2 == IF cfg.mutual
              THEN [c1 EXCEPT !.flags = FlagOr(@, RATS_TLS_CONF_FLAGS_MUTUAL)]
              ELSE c1
    IN  IF cfg.server
        THEN [c2 EXCEPT !.flags = FlagOr(@, RATS_TLS_CONF_FLAGS_SERVER)]
        ELSE c2

\* Whether one of the four slice copies of `new` panics.
CopyPanics(cfg) ==
    \E o \in {cfg.tls_type, cfg.crypto, cfg.attester, cfg.verifier} :
        IsSome(o) /\ ~SliceInRange(ConfDefault.tls_type, Unwrap(o))

\* Faulty variant of RatsTlsNew: the result of the callback registration is
\* not looked at.
RatsTlsNew_IgnoresRegistration(cfg, initRet, cbRet) ==
    IF CopyPanics(cfg)
    THEN [result |-> "Panic", code |-> None, initCalled |-> FALSE,
          cbCalled |-> FALSE, conf |-> None]
    ELSE IF initRet # RATS_TLS_ERR_NONE
    THEN [result |-> "Err", code |-> Some(initRet), initCalled |-> TRUE,
          cbCalled |-> FALSE, conf |-> Some(BuildConf(cfg))]
    ELSE [result |-> "Ok", code |-> None, initCalled |-> TRUE,
          cbCalled |-> TRUE, conf |-> Some(BuildConf(cfg))]

\* Faulty variant of RatsTlsNew: the pointer is wrapped in a handle even
\* when rats_tls_init failed.
RatsTlsNew_WrapsOnInitError(cfg, initRet, cbRet) ==
    IF CopyPanics(cfg)
    THEN [result |-> "Panic", code |-> None, initCalled |-> FALSE,
          cbCalled |-> FALSE, conf |-> None]
    ELSE IF initRet # RATS_TLS_ERR_NONE
    THEN [result |-> "Ok", code |-> None, initCalled |-> TRUE,
          cbCalled |-> FALSE, conf |-> Some(BuildConf(cfg))]
    ELSE IF cbRet = RATS_TLS_ERR_NONE
    THEN [result |-> "Ok", code |-> None, initCalled |-> TRUE,
          cbCalled |-> TRUE, conf |-> Some(BuildConf(cfg))]
    ELSE [result |-> "Err", code |-> Some(cbRet), initCalled |-> TRUE,
          cbCalled |-> TRUE, conf |-> Some(BuildConf(cfg))]

\* RatsTls::new as a function of its arguments and of what the two native
\* calls return: which native calls are made, and what the caller gets.
\*   result "Panic": the call unwinds, no value is returned
\*   result "Err":   Err(code);   result "Ok": Ok(RatsTls::from_ptr(tls))
\*   code: the rats_tls_err_t carried by Err, None otherwise
RatsTlsNew(cfg, initRet, cbRet) ==
    IF CopyPanics(cfg)
    THEN [result |-> "Panic", code |-> None, initCalled |-> FALSE,
          cbCalled |-> FALSE, conf |-> None]
    ELSE IF initRet # RATS_TLS_ERR_NONE
    THEN [result |-> "Err", code |-> Some(initRet), initCalled |-> TRUE,
          cbCalled |-> FALSE, conf |-> Some(BuildConf(cfg))]
    ELSE IF cbRet = RATS_TLS_ERR_NONE
    THEN [result |-> "Ok", code |-> None, initCalled |-> TRUE,
          cbCalled |-> TRUE, conf |-> Some(BuildConf(cfg))]
    ELSE [result |-> "Err", code |-> Some(cbRet), initCalled |-> TRUE,
          cbCalled |-> TRUE, conf |-> Some(BuildConf(cfg))]

\* ------------------------------------------------------- decision documents
\* serde_json::Value, as far as the callback looks into it: a scalar, an
\* array, or an object whose members are scalars.
JNull == [kind |-> "null", b |-> FALSE, n |-> 0, s |-> ""]
JBool(b) == [kind |-> "bool", b |-> b, n |-> 0, s |-> ""]
JNum(n, digits) == [kind |-> "number", b |-> FALSE, n |-> n, s |-> digits]
JStr(s) == [kind |-> "string", b |-> FALSE, n |-> 0, s |-> s]
JArray == [kind |-> "array", b |-> FALSE, n |-> 0, s |-> ""]
JObject(members) == [kind |-> "object", members |-> members]

Explanation == "mrEnclave mismatch"

\* The response strings the decision engine is tried with.
R_ALLOW == "{\"allow\":true}"
R_DENY == "{\"allow\":false,\"parseInfo\":\"mrEnclave mismatch\"}"
R_NO_ALLOW == "{\"parseInfo\":\"mrEnclave mismatch\"}"
R_ALLOW_STRING == "{\"allow\":\"true\",\"parseInfo\":\"mrEnclave mismatch\"}"
R_ALLOW_NUMBER == "{\"allow\":1}"
R_ALLOW_NULL == "{\"allow\":null}"
R_SCALAR_TRUE == "true"
R_TRUNCATED == "{\"allow\":true"

Responses ==
    {R_ALLOW, R_DENY, R_NO_ALLOW, R_ALLOW_STRING, R_ALLOW_NUMBER,
     R_ALLOW_NULL, R_SCALAR_TRUE, R_TRUNCATED}

\* serde_json::from_str::<Value> on those strings: Some(value), or None
\* when the text is not one JSON document.
FromStr(text) ==
    CASE text = R_ALLOW -> Some(JObject([allow |-> JBool(TRUE)]))
      [] text = R_DENY ->
            Some(JObject([allow |-> JBool(FALSE), parseInfo |-> JStr(Explanation)]))
      [] text = R_NO_ALLOW -> Some(JObject([parseInfo |-> JStr(Explanation)]))
      [] text = R_ALLOW_STRING ->
            Some(JObject([allow |-> JStr("true"), parseInfo |-> JStr(Explanation)]))
      [] text = R_ALLOW_NUMBER -> Some(JObject([allow |-> JNum(1, "1")]))
      [] text = R_ALLOW_NULL -> Some(JObject([allow |-> JNull]))
      [] text = R_SCALAR_TRUE -> Some(JBool(TRUE))
      [] OTHER -> None

\* value[key] (Index<&str> for Value): the member of an object, Null for a
\* missing member and for every value that is not an object.
JIndex(v, key) ==
    IF v.kind = "object" /\ key \in DOMAIN v.members
    THEN v.members[key]
    ELSE JNull

\* Faulty variant of JEqTrue: the string "true" and non-zero numbers count
\* as true as well.
JEqTrue_Truthy(v) ==
    \/ v.kind = "bool" /\ v.b = TRUE
    \/ v.kind = "string" /\ v.s = "true"
    \/ v.kind = "number" /\ v.n # 0

\* value == true (PartialEq<bool> for Value): as_bool() is Some(true).
JEqTrue(v) == v.kind = "bool" /\ v.b = TRUE

\* Value::to_string(), as the pieces of the text it renders.
JToString(v) ==
    CASE v.kind = "null" -> <<"null">>
      [] v.kind = "bool" -> IF v.b THEN <<"true">> ELSE <<"false">>
      [] v.kind = "number" -> <<v.s>>
      [] v.kind = "string" -> <<"\"", v.s, "\"">>
      [] v.kind = "array" -> <<"[..]">>
      [] OTHER -> <<"{..}">>

\* ------------------------------------------------------------------ evidence
\* Length of every measurement the callbacks read (from_raw_parts(p, 32)).
MEASURE_LEN == 32
ZeroMeasure == [i \in 1..MEASURE_LEN |-> 0]
KnownMeasure == [i \in 1..MEASURE_LEN |-> i]

\* rtls_evidence: the type tag and the member of the union the tag selects.
SgxEvidence ==
    [type_ |-> enclave_evidence_type_t_SGX_ECDSA,
     sgx |-> [mr_enclave |-> ZeroMeasure, mr_signer |-> ZeroMeasure,
              product_id |-> 1, security_version |-> 1]]
CsvEvidence ==
    [type_ |-> enclave_evidence_type_t_CSV, csv |-> [measure |-> KnownMeasure]]
OtherEvidence == [type_ |-> OTHER_TAG]
Evidences == {SgxEvidence, CsvEvidence, OtherEvidence}

\* base64::encode (standard alphabet, padded): the output as alphabet
\* indices 0..63, B64_PAD for '='.
B64_PAD == 64
RECURSIVE Base64Encode(_)
Base64Encode(bytes) ==
    IF Len(bytes) = 0 THEN <<>>
    ELSE IF Len(bytes) = 1
    THEN <<bytes[1] \div 4, (bytes[1] % 4) * 16, B64_PAD, B64_PAD>>
    ELSE IF Len(bytes) = 2
    THEN <<bytes[1] \div 4, (bytes[1] % 4) * 16 + bytes[2] \div 16,
           (bytes[2] % 16) * 4, B64_PAD>>
    ELSE <<bytes[1] \div 4, (bytes[1] % 4) * 16 + bytes[2] \div 16,
           (bytes[2] % 16) * 4 + bytes[3] \div 64, bytes[3] % 64>>
         \o Base64Encode(SubSeq(bytes, 4, Len(bytes)))

\* The decimal digits of n, as serde_json writes an unsigned integer.
RECURSIVE Digits(_)
Digits(n) == IF n < 10 THEN <<n>> ELSE Digits(n \div 10) \o <<n % 10>>

\* ------------------------------------------------- verification dispatcher
\* What policy_engine::opa::opa_engine::make_decision can answer: Err(e),
\* or Ok(text) for one of the response strings.
EngineError == "engine unavailable"
EngineOutcomes ==
    {[ok |-> FALSE, v |-> EngineError]} \cup {[ok |-> TRUE, v |-> t] : t \in Responses}

Ok == [ok |-> TRUE, err |-> <<>>]
Err(e) == [ok |-> FALSE, err |-> e]

\* Faulty variant of Verdict: the else branch writes no parseInfo line.
Verdict_NoParseInfo(outcome) ==
    IF ~outcome.ok
    THEN [res |-> Err(<<"make_decision error: ", outcome.v>>), log |-> <<>>]
    ELSE LET parsed == FromStr(outcome.v) IN
         IF ~IsSome(parsed)
         THEN [res |-> Err(<<"Json unmashall failed">>), log |-> <<>>]
         ELSE IF JEqTrue(JIndex(Unwrap(parsed), "allow"))
         THEN [res |-> Ok, log |-> <<>>]
         ELSE [res |-> Err(<<"decision is false">>), log |-> <<>>]

\* The chain applied to make_decision's answer (lines 176-187, 201-210):
\* map_err, then from_str, then the test of res["allow"]. The result, and
\* the error! line the last closure writes.
Verdict(outcome) ==
    IF ~outcome.ok
    THEN [res |-> Err(<<"make_decision error: ", outcome.v>>), log |-> <<>>]
    ELSE LET parsed == FromStr(outcome.v) IN
         IF ~IsSome(parsed)
         THEN [res |-> Err(<<"Json unmashall failed">>), log |-> <<>>]
         ELSE IF JEqTrue(JIndex(Unwrap(parsed), "allow"))
         THEN [res |-> Ok, log |-> <<>>]
         ELSE [res |-> Err(<<"decision is false">>),
               log |-> << <<"parseInfo: ">>
                          \o JToString(JIndex(Unwrap(parsed), "parseInfo")) >>]

\* Faulty variant of sgx_callback: the document takes its svn from the
\* evidence only when the decision engine answers.
sgx_callback_Tainted(ev, outcome) ==
    LET input == [mrEnclave |-> Base64Encode(ev.mr_enclave),
                  mrSigner |-> Base64Encode(ev.mr_signer),
                  productId |-> ev.product_id,
                  svn |-> IF outcome.ok THEN ev.security_version ELSE 0]
        v == Verdict(outcome)
    IN  [res |-> v.res, log |-> v.log,
         calls |-> << [policy |-> "OPA_POLICY_SGX", data |-> "OPA_DATA_SGX",
                       input |-> input,
                       text |-> << <<"{\"mrEnclave\":\"">>, input.mrEnclave,
                                   <<"\",\"mrSigner\":\"">>, input.mrSigner,
                                   <<"\",\"productId\":">>,
                                   Digits(input.productId),
                                   <<",\"svn\":">>, Digits(input.svn),
                                   <<"}">> >>] >>]

\* input.to_string() of the two documents json!() builds: the members in
\* the order serde_json writes them, each text piece a sequence of its own.
SgxInputToString(input) ==
    << <<"{\"mrEnclave\":\"">>, input.mrEnclave,
       <<"\",\"mrSigner\":\"">>, input.mrSigner,
       <<"\",\"productId\":">>, Digits(input.productId),
       <<",\"svn\":">>, Digits(input.svn), <<"}">> >>
CsvInputToString(input) ==
    << <<"{\"measure\":\"">>, input.measure, <<"\"}">> >>

\* sgx_callback: the input document, the one make_decision call, the verdict.
sgx_callback(ev, outcome) ==
    LET input == [mrEnclave |-> Base64Encode(ev.mr_enclave),
                  mrSigner |-> Base64Encode(ev.mr_signer),
                  productId |-> ev.product_id,
                  svn |-> ev.security_version]
        v == Verdict(outcome)
    IN  [res |-> v.res, log |-> v.log,
         calls |-> << [policy |-> "OPA_POLICY_SGX", data |-> "OPA_DATA_SGX",
                       input |-> input, text |-> SgxInputToString(input)] >>]

\* Faulty variant of csv_callback: the decision is asked of the SGX policy.
csv_callback_SgxPolicy(ev, outcome) ==
    LET input == [measure |-> Base64Encode(ev.measure)]
        v == Verdict(outcome)
    IN  [res |-> v.res, log |-> v.log,
         calls |-> << [policy |-> "OPA_POLICY_SGX", data |-> "OPA_DATA_SGX",
                       input |-> input, text |-> CsvInputToString(input)] >>]

\* csv_callback: likewise, with the CSV policy and the measure alone.
csv_callback(ev, outcome) ==
    LET input == [measure |-> Base64Encode(ev.measure)]
        v == Verdict(outcome)
    IN  [res |-> v.res, log |-> v.log,
         calls |-> << [policy |-> "OPA_POLICY_CSV", data |-> "OPA_DATA_CSV",
                       input |-> input, text |-> CsvInputToString(input)] >>]

\* Faulty variant of Dispatch: a tag that is not known is let through.
Dispatch_FailOpen(evidence, outcome) ==
    IF evidence.type_ = enclave_evidence_type_t_SGX_ECDSA
    THEN sgx_callback(evidence.sgx, outcome)
    ELSE IF evidence.type_ = enclave_evidence_type_t_CSV
    THEN csv_callback(evidence.csv, outcome)
    ELSE [res |-> Ok, log |-> <<>>, calls |-> <<>>]

\* The branch of `callback` on the evidence type (lines 217-223).
Dispatch(evidence, outcome) ==
    IF evidence.type_ = enclave_evidence_type_t_SGX_ECDSA
    THEN sgx_callback(evidence.sgx, outcome)
    ELSE IF evidence.type_ = enclave_evidence_type_t_CSV
    THEN csv_callback(evidence.csv, outcome)
    ELSE [res |-> Err(<<"Not implemented">>), log |-> <<>>, calls |-> <<>>]

\* The reduction of `callback` to the integer the transport reads
\* (lines 225-233).
Allow(res) == IF res.ok THEN 1 ELSE 0

\* What the logger writes of the records the log macros are given: all of
\* them when it is enabled, nothing when it is not.
Emit(logging, records) == IF logging THEN records ELSE <<>>

\* The records `callback` gives to info! and error!, in order (lines 215,
\* 184/207, 228).
Records(r) ==
    << <<"Verdictd Rats-TLS callback function is called.">> >>
    \o r.log
    \o (IF r.res.ok THEN <<>> ELSE << <<" ">> \o r.res.err >>)

\* Faulty variant of callback: the signal is taken from the verdict only
\* when the logger is enabled.
callback_LogGated(evidence, outcome, logging) ==
    LET r == Dispatch(evidence, outcome) IN
    [type_ |-> evidence.type_,
     evidence |-> evidence,
     outcome |-> IF r.calls = <<>> THEN None ELSE Some(outcome),
     calls |-> r.calls,
     res |-> r.res,
     log |-> Records(r),
     written |-> Emit(logging, Records(r)),
     ret |-> IF logging THEN Allow(r.res) ELSE 1]

\* Faulty variant of callback: a reject is remembered, and the invocation
\* that follows one is rejected whatever its evidence.
callback_Sticky(evidence, outcome, logging) ==
    LET r == Dispatch(evidence, outcome) IN
    [type_ |-> evidence.type_,
     evidence |-> evidence,
     outcome |-> IF r.calls = <<>> THEN None ELSE Some(outcome),
     calls |-> r.calls,
     res |-> r.res,
     log |-> Records(r),
     written |-> Emit(logging, Records(r)),
     ret |-> IF last.op = "callback" /\ last.inv.ret = 0 THEN 0 ELSE Allow(r.res)]

\* RatsTls::callback: one invocation on `evidence`, the decision engine
\* answering `outcome` if it is asked, the logger enabled or not. ret is the
\* returned c_int, calls the make_decision calls made, log the records
\* given to the log macros, written what the logger wrote of them.
callback(evidence, outcome, logging) ==
    LET r == Dispatch(evidence, outcome) IN
    [type_ |-> evidence.type_,
     evidence |-> evidence,
     outcome |-> IF r.calls = <<>> THEN None ELSE Some(outcome),
     calls |-> r.calls,
     res |-> r.res,
     log |-> Records(r),
     written |-> Emit(logging, Records(r)),
     ret |-> Allow(r.res)]

\* ------------------------------------------------------------ the handles
\* The lowest handle not created yet, the lowest context not allocated yet.
FreshHandle == CHOOSE h \in Handles :
    handles[h].st = "unused" /\ \A k \in Handles : handles[k].st = "unused" => h <= k
FreshCtx == CHOOSE c \in Ctxs :
    ctxs[c].st = "unalloc" /\ \A k \in Ctxs : ctxs[k].st = "unalloc" => c <= k
HasFreshHandle == \E h \in Handles : handles[h].st = "unused"
HasFreshCtx == \E c \in Ctxs : ctxs[c].st = "unalloc"

\* ForeignType::from_ptr: the value wrapping ptr.
from_ptr(ptr) == [st |-> "live", ptr |-> ptr]
\* ForeignType::as_ptr.
as_ptr(self) == self.ptr
\* #[derive(Clone)]: the clone wraps a copy of the same NonNull.
clone(self) == from_ptr(as_ptr(self))

\* native: rats_tls_cleanup releases the context.
rats_tls_cleanup(c) ==
    [ctxs EXCEPT ![c].st = "released", ![c].cleanups = @ + 1]

\* A native call on a context already released reads freed memory.
Dangling(c) == ctxs[c].st = "released"

\* A thread that is not inside `callback`.
Idle == [pc |-> "idle", ev |-> None]

Init ==
    /\ handles = [h \in Handles |-> [st |-> "unused", ptr |-> 0]]
    /\ ctxs = [c \in Ctxs |->
                 [st |-> "unalloc", cleanups |-> 0, cb |-> FALSE, hs |-> "none"]]
    /\ raw = {}
    /\ last = [op |-> "none"]
    /\ threads = [t \in Threads |-> Idle]

\* ------------------------------------------------------------- construction
\* The configurations `new` is called with: every setting of the two flags
\* with no name given, every attestation-type string, and the longest
\* string for each of the other three names.
NoNames ==
    [server |-> FALSE, mutual |-> FALSE, enclave_id |-> 0, tls_type |-> None,
     crypto |-> None, attester |-> None, verifier |-> None]
SessionConfigs ==
    {[NoNames EXCEPT !.server = sv, !.mutual = mu] : sv \in BOOLEAN, mu \in BOOLEAN}
    \cup {[NoNames EXCEPT !.tls_type = o] : o \in StrArgs}
    \cup {[NoNames EXCEPT !.crypto = Some(Str(MaxStrLen))],
          [NoNames EXCEPT !.attester = Some(Str(MaxStrLen))],
          [NoNames EXCEPT !.verifier = Some(Str(MaxStrLen))]}

\* native: what the two native calls of `new` can return. A call that is
\* not reached returns nothing, which stands as RATS_TLS_ERR_NONE here.
NativeReturns(cfg) ==
    IF CopyPanics(cfg) THEN {<<RATS_TLS_ERR_NONE, RATS_TLS_ERR_NONE>>}
    ELSE {<<RATS_TLS_ERR_NONE, cbRet>> : cbRet \in Codes}
         \cup {<<initRet, RATS_TLS_ERR_NONE>> : initRet \in ErrCodes}

\* RatsTls::new(cfg). native: rats_tls_init answers initRet and, with
\* RATS_TLS_ERR_NONE, has allocated a context; 
\* rats_tls_set_verification_callback answers cbRet and, with
\* RATS_TLS_ERR_NONE, has registered the callback on it. tls is the pointer
\* rats_tls_init leaves in `tls`: the new context, or (0) the local the
\* variable was initialised with.
New(cfg, initRet, cbRet) ==
    LET r == RatsTlsNew(cfg, initRet, cbRet)
        allocated == r.initCalled /\ initRet = RATS_TLS_ERR_NONE
        registered == r.cbCalled /\ cbRet = RATS_TLS_ERR_NONE
        tls == IF allocated THEN FreshCtx ELSE 0
    IN  /\ allocated => HasFreshCtx
        /\ r.result = "Ok" => HasFreshHandle
        /\ ctxs' = IF allocated
                   THEN [ctxs EXCEPT ![FreshCtx] =
                            [st |-> "live", cleanups |-> 0, cb |-> registered,
                             hs |-> "none"]]
                   ELSE ctxs
        /\ handles' = IF r.result = "Ok"
                      THEN [handles EXCEPT ![FreshHandle] = from_ptr(tls)]
                      ELSE handles
        /\ last' = [op |-> "new", cfg |-> cfg, result |-> r.result,
                    code |-> r.code, conf |-> r.conf,
                    initRet |-> IF r.initCalled THEN Some(initRet) ELSE None,
                    cbRet |-> IF r.cbCalled THEN Some(cbRet) ELSE None,
                    ctx |-> tls]
        /\ UNCHANGED <<raw, threads>>

\* ------------------------------------------------------- ownership of handles
\* h.clone()
Clone(h) ==
    /\ handles[h].st = "live"
    /\ HasFreshHandle
    /\ handles' = [handles EXCEPT ![FreshHandle] = clone(handles[h])]
    /\ last' = [op |-> "clone", ctx |-> as_ptr(handles[h])]
    /\ UNCHANGED <<ctxs, raw, threads>>

\* h goes out of scope: Drop::drop calls rats_tls_cleanup(self.as_ptr()).
Drop(h) ==
    /\ handles[h].st = "live"
    /\ handles' = [handles EXCEPT ![h].st = "dropped"]
    /\ ctxs' = rats_tls_cleanup(as_ptr(handles[h]))
    /\ last' = [op |-> "drop", ctx |-> as_ptr(handles[h]),
                dangling |-> Dangling(as_ptr(handles[h]))]
    /\ UNCHANGED <<raw, threads>>

\* h.into_ptr(): mem::forget(self), the raw pointer goes to the caller.
IntoPtr(h) ==
    /\ handles[h].st = "live"
    /\ handles' = [handles EXCEPT ![h].st = "forgotten"]
    /\ raw' = raw \cup {as_ptr(handles[h])}
    /\ last' = [op |-> "into_ptr", ctx |-> as_ptr(handles[h])]
    /\ UNCHANGED <<ctxs, threads>>

\* RatsTls::from_ptr(p) on a pointer into_ptr handed out.
FromPtr(p) ==
    /\ p \in raw
    /\ HasFreshHandle
    /\ handles' = [handles EXCEPT ![FreshHandle] = from_ptr(p)]
    /\ raw' = raw \ {p}
    /\ last' = [op |-> "from_ptr", ctx |-> p]
    /\ UNCHANGED <<ctxs, threads>>

\* -------------------------------------------------------------- negotiation
\* What the peer can present in one handshake: an evidence record and, if
\* the callback asks the decision engine about it, the engine's answer.
Presentations ==
    {[ev |-> OtherEvidence, outcome |-> [ok |-> FALSE, v |-> EngineError]]}
    \cup [ev : {SgxEvidence, CsvEvidence}, outcome : EngineOutcomes]

\* native: the handshake hands the peer's evidence records to the
\* registered callback one after the other and stops at the first one the
\* callback rejects; PeerOffers are the runs of presentations in which only
\* the last one can be rejected. InvokedWith(p, logging) is the callback's
\* invocation on presentation p; in a handshake the logger is enabled.
InvocationTable ==
    {[p |-> p, logging |-> lg, inv |-> callback(p.ev, p.outcome, lg)] :
        p \in Presentations, lg \in BOOLEAN}
InvokedWith(p, logging) ==
    (CHOOSE r \in InvocationTable : r.p = p /\ r.logging = logging).inv
Invoked(p) == InvokedWith(p, TRUE)
PeerOffers ==
    {p \in UNION {[1..n -> Presentations] : n \in 0..MaxEvidence} :
        \A i \in 1..(Len(p) - 1) : Invoked(p[i]).ret # 0}

\* native: the callback invocations of a handshake on context c.
Invocations(c, peer) ==
    IF ctxs[c].cb
    THEN [i \in 1..Len(peer) |-> Invoked(peer[i])]
    ELSE <<>>

\* native: the codes rats_tls_negotiate can return. A handshake in which
\* the callback rejected never returns RATS_TLS_ERR_NONE; on a released
\* context the call is a use after free, and returns anything.
NegotiateCodes(c, cbs) ==
    IF Dangling(c) THEN Codes
    ELSE IF \E i \in 1..Len(cbs) : cbs[i].ret = 0 THEN ErrCodes
    ELSE Codes

\* Faulty variant of negotiate: the native code is not looked at.
negotiate_Swallows(err) == [ok |-> TRUE, code |-> None]

\* RatsTls::negotiate: Ok(()) for RATS_TLS_ERR_NONE, Err(err) otherwise.
negotiate(err) ==
    IF err = RATS_TLS_ERR_NONE
    THEN [ok |-> TRUE, code |-> None]
    ELSE [ok |-> FALSE, code |-> Some(err)]

\* h.negotiate(fd), the peer presenting `peer`, the native call returning err.
Negotiate(h, peer, err) ==
    LET c == as_ptr(handles[h])
        cbs == IF Dangling(c) THEN <<>> ELSE Invocations(c, peer)
    IN  /\ handles[h].st = "live"
        /\ Dangling(c) => peer = <<>>
        /\ err \in NegotiateCodes(c, cbs)
        /\ ctxs' = IF Dangling(c) THEN ctxs
                   ELSE [ctxs EXCEPT ![c].hs =
                            IF err = RATS_TLS_ERR_NONE THEN "ok" ELSE "failed"]
        /\ last' = [op |-> "negotiate", ctx |-> c, dangling |-> Dangling(c),
                    cbs |-> cbs, err |-> err, ret |-> negotiate(err)]
        /\ UNCHANGED <<handles, raw, threads>>

\* ------------------------------------------------- callback on its threads
\* The transport runs `callback` on the thread that drives a handshake, and
\* handshakes of different handles run on different threads. An invocation
\* is two steps: the thread enters with its evidence (and blocks in
\* make_decision if the evidence is of a supported type), then it returns.
\* native: the function is called only once it is registered.
Registered == \E c \in Ctxs : ctxs[c].st = "live" /\ ctxs[c].cb

\* The answers the decision engine can give for this evidence; for
\* evidence the callback does not ask the engine about, the one placeholder.
OutcomesFor(evidence) ==
    {p.outcome : p \in {q \in Presentations : q.ev = evidence}}

\* Thread t enters callback(evidence).
CallbackEnter(t, evidence) ==
    /\ Registered
    /\ threads[t].pc = "idle"
    /\ threads' = [threads EXCEPT ![t] = [pc |-> "entered", ev |-> Some(evidence)]]
    /\ UNCHANGED <<handles, ctxs, raw, last>>

\* Thread t returns from callback, the engine having answered `outcome`.
\* before is the signal of the invocation that returned just before.
CallbackReturn(t, outcome, logging) ==
    LET evidence == Unwrap(threads[t].ev)
        p == [ev |-> evidence, outcome |-> outcome]
    IN  /\ threads[t].pc = "entered"
        /\ outcome \in OutcomesFor(evidence)
        /\ last' = [op |-> "callback", p |-> p, logging |-> logging,
                    inv |-> InvokedWith(p, logging),
                    before |-> IF last.op = "callback"
                               THEN Some(last.inv.ret) ELSE None]
        /\ threads' = [threads EXCEPT ![t] = Idle]
        /\ UNCHANGED <<handles, ctxs, raw>>

\* ------------------------------------------------------------------ transfer
\* native: what rats_tls_receive and rats_tls_transmit can return on
\* context c for a buffer of n bytes: a code and the length written back.
\* Data moves only on a completed handshake, and never more than n bytes;
\* on a released context the call is a use after free.
TransferReturns(c, n) ==
    IF Dangling(c) THEN Codes \X (0..(MaxBuf + 1))
    ELSE IF ctxs[c].hs = "ok" THEN (Codes \X (0..n))
    ELSE ErrCodes \X {n}

\* Faulty variant of receive: every failure is reported with the same code.
receive_Remaps(err, len) ==
    IF err = RATS_TLS_ERR_NONE
    THEN [ok |-> TRUE, len |-> Some(len), code |-> None]
    ELSE [ok |-> FALSE, len |-> None, code |-> Some(1)]

\* RatsTls::receive: Ok(len) for RATS_TLS_ERR_NONE, Err(err) otherwise.
receive(err, len) ==
    IF err = RATS_TLS_ERR_NONE
    THEN [ok |-> TRUE, len |-> Some(len), code |-> None]
    ELSE [ok |-> FALSE, len |-> None, code |-> Some(err)]

\* RatsTls::transmit: Ok(len) for RATS_TLS_ERR_NONE, Err(err) otherwise.
transmit(err, len) ==
    IF err = RATS_TLS_ERR_NONE
    THEN [ok |-> TRUE, len |-> Some(len), code |-> None]
    ELSE [ok |-> FALSE, len |-> None, code |-> Some(err)]

\* h.receive(buf), buf.len() = n, the native call returning <<err, len>>.
Receive(h, n, err, len) ==
    LET c == as_ptr(handles[h]) IN
    /\ handles[h].st = "live"
    /\ <<err, len>> \in TransferReturns(c, n)
    /\ last' = [op |-> "receive", ctx |-> c, dangling |-> Dangling(c),
                hs |-> ctxs[c].hs, buf |-> n, err |-> err,
                ret |-> receive(err, len)]
    /\ UNCHANGED <<handles, ctxs, raw, threads>>

\* h.transmit(buf), buf.len() = n, the native call returning <<err, len>>.
Transmit(h, n, err, len) ==
    LET c == as_ptr(handles[h]) IN
    /\ handles[h].st = "live"
    /\ <<err, len>> \in TransferReturns(c, n)
    /\ last' = [op |-> "transmit", ctx |-> c, dangling |-> Dangling(c),
                hs |-> ctxs[c].hs, buf |-> n, err |-> err,
                ret |-> transmit(err, len)]
    /\ UNCHANGED <<handles, ctxs, raw, threads>>

\* ------------------------------------------------------------ specification
Next ==
    \/ \E cfg \in SessionConfigs : \E ret \in NativeReturns(cfg) :
          New(cfg, ret[1], ret[2])
    \/ \E h \in Handles : Clone(h)
    \/ \E h \in Handles : Drop(h)
    \/ \E h \in Handles : IntoPtr(h)
    \/ \E p \in Ctxs : FromPtr(p)
    \/ \E h \in Handles, peer \in PeerOffers, err \in Codes :
          Negotiate(h, peer, err)
    \/ \E h \in Handles, n \in 0..MaxBuf, err \in Codes, len \in 0..(MaxBuf + 1) :
          Receive(h, n, err, len)
    \/ \E h \in Handles, n \in 0..MaxBuf, err \in Codes, len \in 0..(MaxBuf + 1) :
          Transmit(h, n, err, len)

Spec == Init /\ [][Next]_vars

\* Construction and ownership alone: the calls that create, copy and
\* destroy handles.
NextOwnership ==
    \/ \E cfg \in SessionConfigs : \E ret \in NativeReturns(cfg) :
          New(cfg, ret[1], ret[2])
    \/ \E h \in Handles : Clone(h)
    \/ \E h \in Handles : Drop(h)
    \/ \E h \in Handles : IntoPtr(h)
    \/ \E p \in Ctxs : FromPtr(p)

SpecOwnership == Init /\ [][NextOwnership]_vars

\* Handshakes alone, on the handle a successful `new` has just returned.
InitHandshake ==
    LET r == RatsTlsNew(NoNames, RATS_TLS_ERR_NONE, RATS_TLS_ERR_NONE) IN
    /\ handles = [h \in Handles |->
                    IF h = 1 THEN from_ptr(1) ELSE [st |-> "unused", ptr |-> 0]]
    /\ ctxs = [c \in Ctxs |->
                 IF c = 1
                 THEN [st |-> "live", cleanups |-> 0, cb |-> TRUE, hs |-> "none"]
                 ELSE [st |-> "unalloc", cleanups |-> 0, cb |-> FALSE,
                       hs |-> "none"]]
    /\ raw = {}
    /\ last = [op |-> "new", cfg |-> NoNames, result |-> r.result,
                code |-> r.code, conf |-> r.conf,
                initRet |-> Some(RATS_TLS_ERR_NONE),
                cbRet |-> Some(RATS_TLS_ERR_NONE), ctx |-> 1]
    /\ threads = [t \in Threads |-> Idle]

NextHandshake ==
    \E h \in Handles, peer \in PeerOffers, err \in Codes :
        Negotiate(h, peer, err)

SpecHandshake == InitHandshake /\ [][NextHandshake]_vars

\* The callback alone, run by the transport on several threads for the
\* handles of the process.
NextDispatcher ==
    \/ \E t \in Threads, evidence \in Evidences : CallbackEnter(t, evidence)
    \/ \E t \in Threads, outcome \in EngineOutcomes, logging \in BOOLEAN :
          CallbackReturn(t, outcome, logging)

SpecDispatcher == InitHandshake /\ [][NextDispatcher]_vars

\* The four calls into the native library alone, no handle being copied or
\* destroyed, the peer of a handshake presenting at most one evidence record.
SingleOffers == {peer \in PeerOffers : Len(peer) <= 1}
NextCalls ==
    \/ \E cfg \in SessionConfigs : \E ret \in NativeReturns(cfg) :
          New(cfg, ret[1], ret[2])
    \/ \E h \in Handles, peer \in SingleOffers, err \in Codes :
          Negotiate(h, peer, err)
    \/ \E h \in Handles, n \in 0..MaxBuf, err \in Codes, len \in 0..(MaxBuf + 1) :
          Receive(h, n, err, len)
    \/ \E h \in Handles, n \in 0..MaxBuf, err \in Codes, len \in 0..(MaxBuf + 1) :
          Transmit(h, n, err, len)

SpecCalls == Init /\ [][NextCalls]_vars

\* ============================================================== properties
\* The handles and raw pointers that own context c.
Owners(c) == {h \in Handles : handles[h].st = "live" /\ handles[h].ptr = c}
Owned(c) == Owners(c) # {} \/ c \in raw
\* Context c came out of a successful `new`.
Constructed(c) == ctxs[c].st # "unalloc" /\ ctxs[c].cb
\* The callback invocations of the last call, if it was a negotiate.
LastCbs == IF last.op = "negotiate" THEN last.cbs ELSE <<>>
Supported(inv) ==
    inv.type_ \in {enclave_evidence_type_t_SGX_ECDSA, enclave_evidence_type_t_CSV}

\* C1: the native context of a handle obtained from a successful construct
\* is passed to rats_tls_cleanup exactly once, whatever is done with the
\* handle (cloning included): never more than once, and once when no owner
\* is left.
C1_ReleasedExactlyOnce ==
    \A c \in Ctxs : Constructed(c) =>
        /\ ctxs[c].cleanups <= 1
        /\ (~Owned(c) => ctxs[c].cleanups = 1)

\* C2: every native call negotiate, receive and transmit make targets a
\* context not yet passed to rats_tls_cleanup.
C2_NoCallAfterRelease ==
    last.op \in {"negotiate", "receive", "transmit"} => ~last.dangling

\* C3: on evidence whose tag is neither SGX-ECDSA nor CSV the callback
\* returns 0 and make_decision is not called in that invocation.
C3_UnsupportedRejected ==
    \A i \in 1..Len(LastCbs) :
        ~Supported(LastCbs[i]) => LastCbs[i].ret = 0 /\ LastCbs[i].calls = <<>>

C3_Witness ==
    /\ last.op = "negotiate"
    /\ \E i \in 1..Len(last.cbs) :
          last.cbs[i].type_ = OTHER_TAG /\ last.cbs[i].ret = 0

\* The responses that are a JSON object whose allow member is the boolean
\* true, and those that are a JSON document with allow missing or not a
\* boolean.
AllowTrueResponses == {R_ALLOW}
MalformedAllowResponses ==
    {R_NO_ALLOW, R_ALLOW_STRING, R_ALLOW_NUMBER, R_ALLOW_NULL, R_SCALAR_TRUE}
Answered(inv, texts) ==
    IsSome(inv.outcome) /\ Unwrap(inv.outcome).ok /\ Unwrap(inv.outcome).v \in texts

\* C4: on SGX-ECDSA or CSV evidence the callback returns non-zero exactly
\* when make_decision succeeded with a response that parses as JSON and
\* whose allow member is the boolean true, and 0 for every other outcome;
\* it returns nothing but 0 and 1.
C4_AcceptIffAllowTrue ==
    \A i \in 1..Len(LastCbs) :
        /\ LastCbs[i].ret \in {0, 1}
        /\ Supported(LastCbs[i]) =>
              /\ Len(LastCbs[i].calls) = 1
              /\ LastCbs[i].ret # 0 <=> Answered(LastCbs[i], AllowTrueResponses)

C4_Witness ==
    /\ last.op = "negotiate"
    /\ Len(last.cbs) = 2
    /\ Supported(last.cbs[1]) /\ last.cbs[1].ret = 1
    /\ Answered(last.cbs[2], {R_ALLOW_STRING}) /\ last.cbs[2].ret = 0

\* C5: a response that parses as JSON but whose allow member is missing or
\* not a boolean is reported as a failure of its own, not with the result
\* an explicit deny is reported with (Err("decision is false")).
C5_MalformedAllowIsNotDeny ==
    \A i \in 1..Len(LastCbs) :
        Answered(LastCbs[i], MalformedAllowResponses) =>
            LastCbs[i].res # Err(<<"decision is false">>)

\* C6: negotiate returns Ok only if every callback invocation of that
\* handshake returned accept; if one returned reject, negotiate returns
\* Err with the native error code.
C6_RejectFailsNegotiate ==
    last.op = "negotiate" =>
        /\ last.ret.ok => \A i \in 1..Len(last.cbs) : last.cbs[i].ret # 0
        /\ (\E i \in 1..Len(last.cbs) : last.cbs[i].ret = 0) =>
              /\ ~last.ret.ok
              /\ IsSome(last.ret.code) /\ Unwrap(last.ret.code) \in ErrCodes

C6_Witness ==
    /\ last.op = "negotiate"
    /\ Len(last.cbs) = 2
    /\ last.cbs[1].ret = 1 /\ last.cbs[2].ret = 0
    /\ ~last.ret.ok

\* C7: receive and transmit return Ok only on a handle whose negotiate has
\* returned Ok.
C7_TransferOnlyAfterNegotiate ==
    (last.op \in {"receive", "transmit"} /\ last.ret.ok) =>
        ctxs[last.ctx].hs = "ok"

\* C8: `new` with an attestation-type, crypto, attester or verifier string
\* longer than its buffer returns Err to the caller, leaves no native
\* context allocated, and neither truncates the string nor writes past the
\* buffer.
TooLong(o) == IsSome(o) /\ Len(Unwrap(o)) > TYPE_NAME_SIZE
C8_OverlongStringIsError ==
    (/\ last.op = "new"
     /\ \E o \in {last.cfg.tls_type, last.cfg.crypto, last.cfg.attester,
                  last.cfg.verifier} : TooLong(o)) =>
        /\ last.result = "Err"
        /\ last.ctx = 0
        /\ last.conf = None

\* C9: no native context rats_tls_init created is left without an owner
\* and unreleased, in particular after `new` has returned an error.
C9_NoLeakOnError ==
    \A c \in Ctxs : ctxs[c].st = "live" => Owned(c)

\* C10: `new` returns a handle exactly when rats_tls_init and
\* rats_tls_set_verification_callback both returned RATS_TLS_ERR_NONE; when
\* rats_tls_init fails its code is returned and the callback is not
\* registered; so every handle has the callback registered on its context.
C10_HandleIffBothSucceed ==
    /\ last.op = "new" =>
          /\ last.result = "Ok" <=>
                /\ last.initRet = Some(RATS_TLS_ERR_NONE)
                /\ last.cbRet = Some(RATS_TLS_ERR_NONE)
          /\ (IsSome(last.initRet) /\ Unwrap(last.initRet) # RATS_TLS_ERR_NONE) =>
                /\ last.result = "Err"
                /\ last.code = last.initRet
                /\ last.cbRet = None
    /\ \A h \in Handles : handles[h].st = "live" => ctxs[handles[h].ptr].cb

C10_Witness ==
    /\ last.op = "new"
    /\ last.result = "Ok"
    /\ \E h \in Handles :
          handles[h].st = "live" /\ handles[h].ptr = last.ctx /\ ctxs[last.ctx].cb

\* C11: new, negotiate, receive and transmit return Ok exactly when every
\* native call they made returned RATS_TLS_ERR_NONE, and for every other
\* native code they return Err carrying that very code.
C11_NativeCodesSurfaced ==
    /\ last.op \in {"negotiate", "receive", "transmit"} =>
          /\ last.ret.ok <=> last.err = RATS_TLS_ERR_NONE
          /\ last.err # RATS_TLS_ERR_NONE => last.ret.code = Some(last.err)
    /\ (last.op = "new" /\ last.result # "Panic") =>
          /\ last.result = "Ok" <=>
                \A r \in {last.initRet, last.cbRet} :
                    IsSome(r) => Unwrap(r) = RATS_TLS_ERR_NONE
          /\ \A r \in {last.initRet, last.cbRet} :
                (IsSome(r) /\ Unwrap(r) # RATS_TLS_ERR_NONE) =>
                    last.result = "Err" /\ last.code = r

C11_Witness ==
    /\ last.op = "receive"
    /\ last.err = MaxErr
    /\ ~last.ret.ok
    /\ last.ret.code = Some(MaxErr)
    /\ ctxs[last.ctx].hs = "ok"

ExplicitDenyResponses == {R_DENY}
C13_DenyLogsParseInfo ==
    \A i \in 1..Len(LastCbs) :
        Answered(LastCbs[i], ExplicitDenyResponses) =>
            /\ LastCbs[i].ret = 0
            /\ \E k \in 1..Len(LastCbs[i].written) :
                  LastCbs[i].written[k] = <<"parseInfo: ", "\"", Explanation, "\"">>

C13_Witness ==
    /\ last.op = "negotiate"
    /\ \E i \in 1..Len(last.cbs) :
          /\ Answered(last.cbs[i], ExplicitDenyResponses)
          /\ last.cbs[i].ret = 0
          /\ Len(last.cbs[i].written) = 3

\* The record that names the cause of a reject: the evidence type is not
\* supported, the make_decision call failed, its answer does not parse, or
\* the decision is not an allow.
CauseRecord(p) ==
    IF ~Supported(p.ev) THEN <<" ", "Not implemented">>
    ELSE IF ~p.outcome.ok THEN <<" ", "make_decision error: ", p.outcome.v>>
    ELSE IF p.outcome.v = R_TRUNCATED THEN <<" ", "Json unmashall failed">>
    ELSE <<" ", "decision is false">>

C15_PolicyMatchesEvidenceType ==
    \A i \in 1..Len(LastCbs) :
        LET inv == LastCbs[i] IN
        /\ inv.type_ = enclave_evidence_type_t_SGX_ECDSA =>
              /\ Len(inv.calls) = 1
              /\ inv.calls[1].policy = "OPA_POLICY_SGX"
              /\ inv.calls[1].data = "OPA_DATA_SGX"
              /\ DOMAIN inv.calls[1].input =
                    {"mrEnclave", "mrSigner", "productId", "svn"}
              /\ inv.calls[1].input.productId = inv.evidence.sgx.product_id
              /\ inv.calls[1].input.svn = inv.evidence.sgx.security_version
        /\ inv.type_ = enclave_evidence_type_t_CSV =>
              /\ Len(inv.calls) = 1
              /\ inv.calls[1].policy = "OPA_POLICY_CSV"
              /\ inv.calls[1].data = "OPA_DATA_CSV"
              /\ DOMAIN inv.calls[1].input = {"measure"}

C15_Witness ==
    /\ last.op = "negotiate"
    /\ Len(last.cbs) = 2
    /\ last.cbs[1].type_ = enclave_evidence_type_t_SGX_ECDSA
    /\ last.cbs[2].type_ = enclave_evidence_type_t_CSV
    /\ last.cbs[1].calls[1].policy = "OPA_POLICY_SGX"
    /\ last.cbs[2].calls[1].policy = "OPA_POLICY_CSV"

\* C17: the configuration `new` hands to rats_tls_init has the server flag
\* set exactly when server is true and the mutual flag exactly when mutual
\* is true, no other flag bit, and the same api_version and log_level for
\* every input.
HasFlag(flags, f) == (flags \div f) % 2 = 1
C17_FlagsAndDefaults ==
    (last.op = "new" /\ IsSome(last.conf)) =>
        LET conf == Unwrap(last.conf) IN
        /\ HasFlag(conf.flags, RATS_TLS_CONF_FLAGS_SERVER) <=> last.cfg.server
        /\ HasFlag(conf.flags, RATS_TLS_CONF_FLAGS_MUTUAL) <=> last.cfg.mutual
        /\ conf.flags =
              (IF last.cfg.server THEN RATS_TLS_CONF_FLAGS_SERVER ELSE 0)
              + (IF last.cfg.mutual THEN RATS_TLS_CONF_FLAGS_MUTUAL ELSE 0)
        /\ conf.api_version = RATS_TLS_API_VERSION_DEFAULT
        /\ conf.log_level = RATS_TLS_LOG_LEVEL_DEBUG

C17_Witness ==
    /\ last.op = "new"
    /\ last.cfg.server /\ last.cfg.mutual
    /\ IsSome(last.conf)
    /\ Unwrap(last.conf).flags =
          RATS_TLS_CONF_FLAGS_SERVER + RATS_TLS_CONF_FLAGS_MUTUAL

\* C18: when receive or transmit returns Ok(len), len is between 0 and the
\* length of the buffer the caller passed.
C18_LenWithinBuffer ==
    (last.op \in {"receive", "transmit"} /\ last.ret.ok) =>
        Unwrap(last.ret.len) \in 0..last.buf

\* C19: rats_tls_cleanup is called only on contexts rats_tls_init created:
\* every handle and raw pointer refers to a context rats_tls_init created,
\* and a `new` whose rats_tls_init failed returns Err and wraps nothing.
C19_CleanupOnlyOnCreated ==
    /\ last.op = "drop" => last.ctx \in Ctxs
    /\ \A h \in Handles :
          handles[h].st # "unused" =>
              handles[h].ptr \in Ctxs /\ ctxs[handles[h].ptr].st # "unalloc"
    /\ \A p \in raw : ctxs[p].st # "unalloc"
    /\ (/\ last.op = "new"
        /\ IsSome(last.initRet)
        /\ Unwrap(last.initRet) # RATS_TLS_ERR_NONE) =>
            /\ last.result = "Err"
            /\ last.ctx = 0

C19_Witness ==
    /\ last.op = "new"
    /\ IsSome(last.initRet)
    /\ Unwrap(last.initRet) \in ErrCodes
    /\ last.result = "Err"
    /\ \E c \in Ctxs : ctxs[c].cleanups = 1
    /\ \A h \in Handles : handles[h].st # "live"

====
